---- MODULE Spec2Model ----
(***************************************************************************)
(* Model of the repair-request backend (src/agents): the Gateway operation *)
(* handle_prompt (main.py), the RequestAnalyzer / CompletionClient         *)
(* (claude_api.py) and the ResponseInterpreter (repair_agent.py).          *)
(*                                                                         *)
(* Python values are records tagged by their type.  A Python str is a      *)
(* sequence of lexemes: the lexemes of a JSON text (punctuation, literals, *)
(* numbers, string literals) or chunks of prose ("word").  json.loads is   *)
(* a recursive-descent parser over that sequence.  An operation that can   *)
(* raise returns an outcome [raised, exc, val]; try/except is modelled by  *)
(* the operator that holds the except clause.                              *)
(***************************************************************************)
EXTENDS Integers, Sequences, FiniteSets, TLC

\* ------------------------------------------------------------------ bounds

\* Longest raw text (in lexemes) enumerated over RawAlphabet.
MaxRawLen == 3

\* ------------------------------------------------------------------ values

P(x) == [t |-> "punct", v |-> x]
L(x) == [t |-> "lit", v |-> x]
N(x) == [t |-> "num", v |-> x]
S(x) == [t |-> "str", v |-> x]
W(x) == [t |-> "word", v |-> x]

PyNone == [ty |-> "none", b |-> FALSE, n |-> 0, s |-> <<>>, items |-> <<>>, entries |-> <<>>]
PyBool(x) == [ty |-> "bool", b |-> x, n |-> 0, s |-> <<>>, items |-> <<>>, entries |-> <<>>]
PyInt(x) == [ty |-> "int", b |-> FALSE, n |-> x, s |-> <<>>, items |-> <<>>, entries |-> <<>>]
PyStr(x) == [ty |-> "str", b |-> FALSE, n |-> 0, s |-> x, items |-> <<>>, entries |-> <<>>]
PyList(x) == [ty |-> "list", b |-> FALSE, n |-> 0, s |-> <<>>, items |-> x, entries |-> <<>>]
PyDict(x) == [ty |-> "dict", b |-> FALSE, n |-> 0, s |-> <<>>, items |-> <<>>, entries |-> x]

\* The str whose text is x: the empty str for "", one prose chunk otherwise.
Text(x) == PyStr(IF x = "" THEN <<>> ELSE <<W(x)>>)

\* Python's name of a value's type, as it appears in exception messages.
TypeName(v) == IF v.ty = "none" THEN "NoneType" ELSE v.ty

\* bool(v): Python truthiness.
Truthy(v) ==
    CASE v.ty = "none" -> FALSE
      [] v.ty = "bool" -> v.b
      [] v.ty = "int" -> v.n # 0
      [] v.ty = "str" -> v.s # <<>>
      [] v.ty = "list" -> v.items # <<>>
      [] v.ty = "dict" -> v.entries # <<>>

\* str.lower() of one chunk of text.
LowerWord(w) ==
    CASE w = "HIGH" -> "high"
      [] w = "High" -> "high"
      [] w = "Medium" -> "medium"
      [] w = "MEDIUM" -> "medium"
      [] w = "LOW" -> "low"
      [] w = "Low" -> "low"
      [] w = "What is the model number?" -> "what is the model number?"
      [] w = "Turn off the water valve." -> "turn off the water valve."
      [] w = "Sorry, I cannot help with that." -> "sorry, i cannot help with that."
      [] OTHER -> w

\* Lower without the case folding.
Lower_Unchanged(v) == v

Lower(v) == PyStr([i \in 1..Len(v.s) |-> [t |-> v.s[i].t, v |-> LowerWord(v.s[i].v)]])

HasKey(entries, k) == \E i \in 1..Len(entries) : entries[i].k = k

\* dict.get(k, default)
DictGet(d, k, default) ==
    IF HasKey(d.entries, k)
    THEN d.entries[CHOOSE i \in 1..Len(d.entries) : d.entries[i].k = k].v
    ELSE default

\* d[k] = v: a key already present keeps its position and takes the new value.
DictSet(entries, k, v) ==
    IF HasKey(entries, k)
    THEN [i \in 1..Len(entries) |->
            IF entries[i].k = k THEN [k |-> k, v |-> v] ELSE entries[i]]
    ELSE Append(entries, [k |-> k, v |-> v])

Ret(v) == [raised |-> FALSE, exc |-> "", val |-> v]
Raise(kind, msg) == [raised |-> TRUE, exc |-> kind, val |-> PyStr(msg)]

\* ------------------------------------------------------------------ json.loads

ParseFail == [ok |-> FALSE, val |-> PyNone, next |-> 0]
ParseOk(v, next) == [ok |-> TRUE, val |-> v, next |-> next]

LitValue(x) ==
    CASE x = "true" -> PyBool(TRUE)
      [] x = "false" -> PyBool(FALSE)
      [] OTHER -> PyNone

NumValue(x) ==
    CASE x = "0" -> 0
      [] x = "1" -> 1
      [] OTHER -> 5

RECURSIVE ParseValue(_, _), ParseMembers(_, _, _), ParseElements(_, _, _)

\* One JSON value starting at lexeme i.
ParseValue(toks, i) ==
    IF i > Len(toks) THEN ParseFail
    ELSE LET tk == toks[i] IN
         CASE tk.t = "lit" -> ParseOk(LitValue(tk.v), i + 1)
           [] tk.t = "num" -> ParseOk(PyInt(NumValue(tk.v)), i + 1)
           [] tk.t = "str" -> ParseOk(Text(tk.v), i + 1)
           [] tk = P("{") ->
                IF i + 1 <= Len(toks) /\ toks[i + 1] = P("}")
                THEN ParseOk(PyDict(<<>>), i + 2)
                ELSE ParseMembers(toks, i + 1, <<>>)
           [] tk = P("[") ->
                IF i + 1 <= Len(toks) /\ toks[i + 1] = P("]")
                THEN ParseOk(PyList(<<>>), i + 2)
                ELSE ParseElements(toks, i + 1, <<>>)
           [] OTHER -> ParseFail

\* The members of an object from lexeme i on, acc holding those already read.
ParseMembers(toks, i, acc) ==
    IF i + 1 > Len(toks) THEN ParseFail
    ELSE IF toks[i].t # "str" \/ toks[i + 1] # P(":") THEN ParseFail
    ELSE LET r == ParseValue(toks, i + 2) IN
         IF ~r.ok \/ r.next > Len(toks) THEN ParseFail
         ELSE LET acc2 == DictSet(acc, toks[i].v, r.val) IN
              IF toks[r.next] = P("}") THEN ParseOk(PyDict(acc2), r.next + 1)
              ELSE IF toks[r.next] = P(",") THEN ParseMembers(toks, r.next + 1, acc2)
              ELSE ParseFail

\* The elements of an array from lexeme i on.
ParseElements(toks, i, acc) ==
    LET r == ParseValue(toks, i) IN
    IF ~r.ok \/ r.next > Len(toks) THEN ParseFail
    ELSE LET acc2 == Append(acc, r.val) IN
         IF toks[r.next] = P("]") THEN ParseOk(PyList(acc2), r.next + 1)
         ELSE IF toks[r.next] = P(",") THEN ParseElements(toks, r.next + 1, acc2)
         ELSE ParseFail

\* json.loads(text): a value, or JSONDecodeError (also on trailing data).
json_loads(data) ==
    LET r == ParseValue(data.s, 1) IN
    IF r.ok /\ r.next = Len(data.s) + 1
    THEN Ret(r.val)
    ELSE Raise("JSONDecodeError", <<W("Expecting value")>>)

\* ------------------------------------------------------------------ repair_agent.py

required_fields == <<"parts_needed", "complexity_level", "further_inquiry">>

ContractorMessage ==
    Text("It seems your issue is rather complex, would you like for me to dispatch a contractor to your address?")
NoQuestionsMessage ==
    Text("I need more information to help you, but no specific questions were provided.")
NoInstructionsMessage ==
    Text("I should provide repair instructions, but none were generated.")
UnclearInquiryMessage ==
    Text("Unable to determine next steps due to unclear inquiry status.")
FallbackMessage ==
    Text("Unable to determine the appropriate next steps for this repair situation.")
ErrorPrefix == <<W("Error processing repair analysis: ")>>
MissingPrefix == <<W("Missing required fields in Claude response: ")>>

\* `field not in response` can be evaluated: response is a container or a str.
Iterable(response) == response.ty \in {"dict", "list", "str"}

\* `field in response`: a key of a dict, an element of a list, a substring of
\* a str (a chunk of the str is the field name).
FieldIn(field, response) ==
    CASE response.ty = "dict" -> HasKey(response.entries, field)
      [] response.ty = "list" ->
            \E i \in 1..Len(response.items) : response.items[i] = Text(field)
      [] response.ty = "str" ->
            \E i \in 1..Len(response.s) : response.s[i].v = field
      [] OTHER -> FALSE

missing_fields(response) ==
    SelectSeq(required_fields, LAMBDA f : ~FieldIn(f, response))

\* str(missing_fields): the list's repr.
ReprFields(fields) ==
    <<W("[")>> \o [i \in 1..Len(fields) |-> W(fields[i])] \o <<W("]")>>

\* Rule 1: parts needed or high complexity.
Rule1(parts_needed, complexity_level) ==
    parts_needed = PyBool(TRUE) \/ complexity_level = Text("high")

\* Rule 2: parts not needed and complexity medium or low.
Rule2(parts_needed, complexity_level) ==
    parts_needed = PyBool(FALSE) /\ complexity_level \in {Text("medium"), Text("low")}

\* Sub-rule 2a: the follow-up questions, or the fixed message when there are none.
SubRule2a(further_questions) ==
    IF ~Truthy(further_questions) THEN NoQuestionsMessage ELSE further_questions

\* SubRule2b without the check for missing instructions.
SubRule2b_Unchecked(instructions) == instructions

\* Sub-rule 2b: the instructions, or the fixed message when there are none.
SubRule2b(instructions) ==
    IF ~Truthy(instructions) THEN NoInstructionsMessage ELSE instructions

\* Decide with the two optional fields taken for each other.
Decide_FieldsSwapped(parts_needed, complexity_level, further_inquiry, further_questions, instructions) ==
    IF Rule1(parts_needed, complexity_level) THEN ContractorMessage
    ELSE IF Rule2(parts_needed, complexity_level)
    THEN IF further_inquiry = PyBool(TRUE) THEN SubRule2a(instructions)
         ELSE IF further_inquiry = PyBool(FALSE) THEN SubRule2b(further_questions)
         ELSE UnclearInquiryMessage
    ELSE FallbackMessage

\* The decision logic on the extracted fields.
Decide(parts_needed, complexity_level, further_inquiry, further_questions, instructions) ==
    IF Rule1(parts_needed, complexity_level) THEN ContractorMessage
    ELSE IF Rule2(parts_needed, complexity_level)
    THEN IF further_inquiry = PyBool(TRUE) THEN SubRule2a(further_questions)
         ELSE IF further_inquiry = PyBool(FALSE) THEN SubRule2b(instructions)
         ELSE UnclearInquiryMessage
    ELSE FallbackMessage

\* The body of handle_claude_response's try block.
HandleBody(response) ==
    IF ~Iterable(response)
    THEN Raise("TypeError",
               <<W("argument of type '"), W(TypeName(response)), W("' is not iterable")>>)
    ELSE IF missing_fields(response) # <<>>
    THEN Raise("ValueError", MissingPrefix \o ReprFields(missing_fields(response)))
    ELSE IF response.ty # "dict"
    THEN Raise("AttributeError",
               <<W("'"), W(TypeName(response)), W("' object has no attribute 'get'")>>)
    ELSE LET raw_level == DictGet(response, "complexity_level", Text("")) IN
         IF raw_level.ty # "str"
         THEN Raise("AttributeError",
                    <<W("'"), W(TypeName(raw_level)), W("' object has no attribute 'lower'")>>)
         ELSE Ret(Decide(DictGet(response, "parts_needed", PyNone),
                         Lower(raw_level),
                         DictGet(response, "further_inquiry", PyNone),
                         DictGet(response, "further_questions", Text("")),
                         DictGet(response, "instructions", Text(""))))

\* handle_claude_response: the try block, and `except Exception` turning any
\* exception into the diagnostic message.
handle_claude_response(response) ==
    LET o == HandleBody(response) IN
    IF o.raised THEN Ret(PyStr(ErrorPrefix \o o.val.s)) ELSE o

\* str(data) for the values generate_response's last branch can meet.
PyToStr(v) ==
    CASE v.ty = "none" -> Text("None")
      [] v.ty = "bool" -> Text(IF v.b THEN "True" ELSE "False")
      [] v.ty = "int" -> Text(CASE v.n = 0 -> "0" [] v.n = 1 -> "1" [] OTHER -> "5")
      [] v.ty = "str" -> v
      [] v.ty = "list" -> PyStr(<<W("[")>> \o <<W("...")>> \o <<W("]")>>)
      [] v.ty = "dict" -> PyStr(<<W("{")>> \o <<W("...")>> \o <<W("}")>>)

GenResult(v, handled) == [raised |-> FALSE, exc |-> "", val |-> v, handled |-> handled]

\* The outer `except Exception` of generate_response.
GenError(o) == GenResult(PyStr(ErrorPrefix \o o.val.s), TRUE)

\* generate_response reporting an unparsable text as an error.
generate_response_ParseFailureAsError(data) ==
    IF data.ty = "str"
    THEN LET p == json_loads(data) IN
         IF p.raised
         THEN GenError(p)
         ELSE LET h == handle_claude_response(p.val) IN
              IF h.raised THEN GenError(h) ELSE GenResult(h.val, TRUE)
    ELSE IF data.ty = "dict"
    THEN LET h == handle_claude_response(data) IN
         IF h.raised THEN GenError(h) ELSE GenResult(h.val, TRUE)
    ELSE GenResult(PyToStr(data), FALSE)

\* generate_response: [raised, exc, val, handled], handled telling whether
\* handle_claude_response was applied.  The inner except clause covers both
\* json.loads and the call of handle_claude_response.
generate_response(data) ==
    IF data.ty = "str"
    THEN LET p == json_loads(data) IN
         IF p.raised
         THEN GenResult(data, FALSE)
         ELSE LET h == handle_claude_response(p.val) IN
              IF h.raised /\ h.exc \in {"JSONDecodeError", "ValueError"}
              THEN GenResult(data, TRUE)
              ELSE IF h.raised THEN GenError(h)
              ELSE GenResult(h.val, TRUE)
    ELSE IF data.ty = "dict"
    THEN LET h == handle_claude_response(data) IN
         IF h.raised THEN GenError(h) ELSE GenResult(h.val, TRUE)
    ELSE GenResult(PyToStr(data), FALSE)

\* validate_claude_response_structure (defined in the source, called nowhere).
validate_claude_response_structure(response) ==
    /\ response.ty = "dict"
    /\ HasKey(response.entries, "parts_needed")
    /\ DictGet(response, "parts_needed", PyNone).ty = "bool"
    /\ HasKey(response.entries, "complexity_level")
    /\ DictGet(response, "complexity_level", PyNone).ty = "str"
    /\ HasKey(response.entries, "further_inquiry")
    /\ DictGet(response, "further_inquiry", PyNone).ty = "bool"
    /\ Lower(DictGet(response, "complexity_level", PyNone))
          \in {Text("low"), Text("medium"), Text("high")}

\* ------------------------------------------------------------------ claude_api.py

TemplateOutcomes == {"ok", "file_missing", "no_prompts_key", "key_missing", "empty_content"}

\* get_prompt_content: the template text, or the exception of the failed lookup.
get_prompt_content(env) ==
    CASE env.template = "ok" -> Ret(Text("base prompt"))
      [] env.template = "file_missing" ->
            Raise("FileNotFoundError", <<W("Prompting YAML file not found: prompting.yaml")>>)
      [] env.template = "no_prompts_key" ->
            Raise("ValueError", <<W("Invalid YAML structure: 'prompts' key not found")>>)
      [] env.template = "key_missing" ->
            Raise("KeyError", <<W("Prompt key 'repair_analysis' not found in YAML configuration")>>)
      [] OTHER ->
            Raise("ValueError", <<W("Empty content for prompt key 'repair_analysis'")>>)

\* get_claude_api_key: the credential, or ValueError when it is not set.
get_claude_api_key(env) ==
    IF env.api_key
    THEN Ret(Text("key"))
    ELSE Raise("ValueError", <<W("CLAUDE_API_KEY environment variable not set. Please check your .env file.")>>)

Sent(v, posts) == [val |-> v, posts |-> posts]

\* The text of a 200 response: content[0].get('text', ''), or None when the
\* payload is not shaped as expected or reading it raises.
ResponseText(body) ==
    IF ~body.json_ok THEN PyNone
    ELSE IF body.val.ty # "dict" THEN PyNone
    ELSE LET content == DictGet(body.val, "content", PyList(<<>>)) IN
         IF Truthy(content) /\ content.ty = "list" /\ Len(content.items) > 0
         THEN IF content.items[1].ty # "dict" THEN PyNone
              ELSE DictGet(content.items[1], "text", Text(""))
         ELSE PyNone

\* send_claude_request trying a second time after a failed attempt.
send_claude_request_Retry(env) ==
    IF get_claude_api_key(env).raised THEN Sent(PyNone, 0)
    ELSE IF env.transport # "ok" THEN Sent(PyNone, 2)
    ELSE IF env.status_code = 200 THEN Sent(ResponseText(env.body), 1)
    ELSE Sent(PyNone, 2)

\* send_claude_request: the response text or None, and the number of POSTs made.
send_claude_request(env) ==
    IF get_claude_api_key(env).raised THEN Sent(PyNone, 0)
    ELSE IF env.transport # "ok" THEN Sent(PyNone, 1)
    ELSE IF env.status_code = 200 THEN Sent(ResponseText(env.body), 1)
    ELSE Sent(PyNone, 1)

\* len(response) in the log line can be evaluated.
Sized(v) == v.ty \in {"str", "list", "dict"}

\* analyze_customer_request: the response, or None when it is falsy or anything raised.
analyze_customer_request(env) ==
    IF get_prompt_content(env).raised THEN Sent(PyNone, 0)
    ELSE LET r == send_claude_request(env) IN
         IF Truthy(r.val) /\ Sized(r.val) THEN r ELSE Sent(PyNone, r.posts)

process_prompt(env) == analyze_customer_request(env)

\* ------------------------------------------------------------------ main.py

NoResult == [raised |-> FALSE, exc |-> "", val |-> PyNone, handled |-> FALSE]

FailedMessage == Text("Failed to get response from Claude API")

\* handle_prompt without the check for a failed completion call.
handle_prompt_NoFailureCheck(env) ==
    LET out == process_prompt(env) IN
    LET g == generate_response(out.val) IN
    [reply |-> [status |-> "success", key |-> "response", text |-> g.val],
     raised |-> FALSE, posts |-> out.posts,
     called |-> TRUE, data |-> out.val, result |-> g]

\* handle_prompt: the reply, with what happened on the way.
handle_prompt(env) ==
    LET out == process_prompt(env) IN
    IF out.val = PyNone
    THEN [reply |-> [status |-> "error", key |-> "message", text |-> FailedMessage],
          raised |-> FALSE, posts |-> out.posts,
          called |-> FALSE, data |-> PyNone, result |-> NoResult]
    ELSE LET g == generate_response(out.val) IN
         [reply |-> IF g.raised
                    THEN [status |-> "error", key |-> "message", text |-> g.val]
                    ELSE [status |-> "success", key |-> "response", text |-> g.val],
          raised |-> FALSE, posts |-> out.posts,
          called |-> TRUE, data |-> out.val, result |-> g]

\* ------------------------------------------------------------------ inputs

Absent == [ty |-> "absent", b |-> FALSE, n |-> 0, s |-> <<>>, items |-> <<>>, entries |-> <<>>]

PartsNeededValues == {Absent, PyBool(TRUE), PyBool(FALSE), PyInt(1)}
ComplexityValues ==
    {Absent, Text("low"), Text("medium"), Text("high"), Text("HIGH"), Text("Medium"),
     Text("extreme"), PyInt(5)}
FurtherInquiryValues == {Absent, PyBool(TRUE), PyBool(FALSE), Text("maybe")}
FurtherQuestionsValues ==
    {Absent, Text(""), Text("What is the model number?"), PyList(<<PyInt(1)>>)}
InstructionsValues == {Absent, Text(""), Text("Turn off the water valve."), PyInt(5)}

Present(entries) == SelectSeq(entries, LAMBDA e : e.v # Absent)

\* The structured replies: every combination of the field values above.
Records ==
    {PyDict(Present(<<[k |-> "parts_needed", v |-> pn],
                      [k |-> "complexity_level", v |-> cl],
                      [k |-> "further_inquiry", v |-> fi],
                      [k |-> "further_questions", v |-> fq],
                      [k |-> "instructions", v |-> ins]>>)) :
        pn \in PartsNeededValues, cl \in ComplexityValues, fi \in FurtherInquiryValues,
        fq \in FurtherQuestionsValues, ins \in InstructionsValues}

RECURSIVE Dump(_), DumpItems(_, _), DumpEntries(_, _)

\* The JSON text of a value, as the completion service writes it.
Dump(v) ==
    CASE v.ty = "none" -> <<L("null")>>
      [] v.ty = "bool" -> <<L(IF v.b THEN "true" ELSE "false")>>
      [] v.ty = "int" -> <<N(CASE v.n = 0 -> "0" [] v.n = 1 -> "1" [] OTHER -> "5")>>
      [] v.ty = "str" -> <<S(IF v.s = <<>> THEN "" ELSE v.s[1].v)>>
      [] v.ty = "list" -> <<P("[")>> \o DumpItems(v.items, 1) \o <<P("]")>>
      [] v.ty = "dict" -> <<P("{")>> \o DumpEntries(v.entries, 1) \o <<P("}")>>

DumpItems(items, i) ==
    IF i > Len(items) THEN <<>>
    ELSE Dump(items[i]) \o (IF i < Len(items) THEN <<P(",")>> ELSE <<>>)
         \o DumpItems(items, i + 1)

DumpEntries(entries, i) ==
    IF i > Len(entries) THEN <<>>
    ELSE <<S(entries[i].k), P(":")>> \o Dump(entries[i].v)
         \o (IF i < Len(entries) THEN <<P(",")>> ELSE <<>>)
         \o DumpEntries(entries, i + 1)

RecordTexts == {PyStr(Dump(r)) : r \in Records}

RawAlphabet ==
    {P("{"), P("}"), P("["), P("]"), P(":"), P(","), L("true"), N("5"),
     S("parts_needed"), S(""), W("Sorry, I cannot help with that.")}

\* Every text of at most MaxRawLen lexemes over RawAlphabet, the empty text included.
RawTexts == {PyStr(s) : s \in UNION {[1..n -> RawAlphabet] : n \in 0..MaxRawLen}}

\* Replies that are JSON but no object of the expected shape.
EdgeTexts ==
    {PyStr(Dump(PyList(<<Text("parts_needed"), Text("complexity_level"),
                         Text("further_inquiry")>>))),
     PyStr(Dump(PyDict(<<[k |-> "parts_needed", v |-> PyBool(TRUE)],
                         [k |-> "complexity_level", v |-> PyNone],
                         [k |-> "further_inquiry", v |-> PyBool(FALSE)]>>))),
     PyStr(<<P("{"), S("parts_needed"), P(":"), L("false"), P(","),
             S("parts_needed"), P(":"), L("true"), P(","),
             S("complexity_level"), P(":"), S("low"), P(","),
             S("further_inquiry"), P(":"), L("false"), P("}")>>),
     PyStr(<<W("I think the answer is"), P("{"), P("}")>>)}

Texts == RecordTexts \cup RawTexts \cup EdgeTexts

\* What a caller can hand to generate_response: text, a record, None, another value.
Inputs == Texts \cup Records \cup {PyNone, PyInt(5), PyBool(FALSE)}

JsonBody(v) == [json_ok |-> TRUE, val |-> v]
ContentBody(content) == JsonBody(PyDict(<<[k |-> "content", v |-> content]>>))
TextBody(text) == ContentBody(PyList(<<PyDict(<<[k |-> "text", v |-> text]>>)>>))

\* Payloads of every shape send_claude_request distinguishes.
ShapeBodies ==
    {[json_ok |-> FALSE, val |-> PyNone],
     JsonBody(PyList(<<>>)),
     JsonBody(PyDict(<<>>)),
     ContentBody(PyNone),
     ContentBody(Text("overloaded")),
     ContentBody(PyList(<<>>)),
     ContentBody(PyList(<<Text("hello")>>)),
     ContentBody(PyList(<<PyDict(<<>>)>>)),
     TextBody(PyNone),
     TextBody(PyInt(5)),
     TextBody(PyBool(TRUE)),
     TextBody(PyList(<<PyInt(1)>>)),
     TextBody(Text("")),
     TextBody(Text("Sorry, I cannot help with that."))}

Transports == {"ok", "timeout", "connection_error"}
StatusCodes == {200, 401, 500}

\* The environment of one request: every combination of outcomes with the
\* payload shapes, and every text with everything else succeeding.
Envs ==
    [template : TemplateOutcomes, api_key : BOOLEAN, transport : Transports,
     status_code : StatusCodes, body : ShapeBodies]
    \cup
    {[template |-> "ok", api_key |-> TRUE, transport |-> "ok", status_code |-> 200,
      body |-> TextBody(t)] : t \in Texts}

NoEnv ==
    [template |-> "ok", api_key |-> FALSE, transport |-> "ok", status_code |-> 0,
     body |-> [json_ok |-> FALSE, val |-> PyNone]]
NoReply == [status |-> "", key |-> "", text |-> PyNone]

\* ------------------------------------------------------------------ state machine

VARIABLES
    op,       \* the last operation: "none", "generate_response", "handle_prompt"
    env,      \* the environment handle_prompt ran in
    data,     \* the value given to generate_response
    called,   \* generate_response was invoked
    result,   \* what generate_response returned or raised
    reply,    \* what handle_prompt returned
    raised,   \* the operation let an exception escape
    posts     \* outbound completion calls made by the operation

vars == <<op, env, data, called, result, reply, raised, posts>>

Init ==
    /\ op = "none"
    /\ env = NoEnv
    /\ data = PyNone
    /\ called = FALSE
    /\ result = NoResult
    /\ reply = NoReply
    /\ raised = FALSE
    /\ posts = 0

\* A direct call of generate_response(d).
GenerateResponse(d) ==
    /\ op = "none"
    /\ op' = "generate_response"
    /\ env' = NoEnv
    /\ data' = d
    /\ called' = TRUE
    /\ result' = generate_response(d)
    /\ reply' = NoReply
    /\ raised' = generate_response(d).raised
    /\ posts' = 0

\* One POST /handle-prompt in environment e.
HandlePrompt(e) ==
    LET h == handle_prompt(e) IN
    /\ op = "none"
    /\ op' = "handle_prompt"
    /\ env' = e
    /\ data' = h.data
    /\ called' = h.called
    /\ result' = h.result
    /\ reply' = h.reply
    /\ raised' = h.raised
    /\ posts' = h.posts

\* The operation has returned: nothing of a request outlives it.
Finish ==
    /\ op # "none"
    /\ op' = "none"
    /\ env' = NoEnv
    /\ data' = PyNone
    /\ called' = FALSE
    /\ result' = NoResult
    /\ reply' = NoReply
    /\ raised' = FALSE
    /\ posts' = 0

Next ==
    \/ \E d \in Inputs : GenerateResponse(d)
    \/ \E e \in Envs : HandlePrompt(e)
    \/ Finish

Spec == Init /\ [][Next]_vars

\* ------------------------------------------------------------------ claims

HighSpellings == {Text("high"), Text("HIGH"), Text("High")}
MediumSpellings == {Text("medium"), Text("MEDIUM"), Text("Medium")}
LowSpellings == {Text("low"), Text("LOW"), Text("Low")}

\* The interpreter was given a structured reply: a record, or text that parses to one.
Structured ==
    /\ called
    /\ \/ data.ty = "dict"
       \/ data.ty = "str" /\ ~json_loads(data).raised /\ json_loads(data).val.ty = "dict"

\* The structured reply the interpreter was given.
Reply == IF data.ty = "dict" THEN data ELSE json_loads(data).val

Field(k) == DictGet(Reply, k, Absent)

\* The data model's well-formed AnalysisResult.
WellFormed ==
    /\ Structured
    /\ Field("parts_needed").ty = "bool"
    /\ Field("complexity_level") \in HighSpellings \cup MediumSpellings \cup LowSpellings
    /\ Field("further_inquiry").ty = "bool"
    /\ Field("further_questions").ty \in {"absent", "str"}
    /\ Field("instructions").ty \in {"absent", "str"}

NonEmptyText(v) == v.ty = "str" /\ v.s # <<>>

\* C1: a well-formed reply with parts needed, or with complexity "high" in any
\* letter case, gets the contractor-dispatch message whatever its other fields.
C1_ContractorDispatch ==
    (/\ WellFormed
     /\ \/ Field("parts_needed") = PyBool(TRUE)
        \/ Field("complexity_level") \in HighSpellings)
    => (~result.raised /\ result.val = ContractorMessage)

C1_Witness ==
    /\ WellFormed
    /\ data.ty = "str"
    /\ Field("parts_needed") = PyBool(FALSE)
    /\ Field("complexity_level") = Text("HIGH")
    /\ Field("further_inquiry") = PyBool(TRUE)
    /\ Field("further_questions") = Text("What is the model number?")
    /\ result.val = ContractorMessage

\* C2: a well-formed reply with no parts needed, low or medium complexity and
\* further inquiry gets its further questions unmodified when they are non-empty
\* and the "no specific questions" message otherwise, whatever its instructions.
C2_FurtherQuestions ==
    (/\ WellFormed
     /\ Field("parts_needed") = PyBool(FALSE)
     /\ Field("complexity_level") \in MediumSpellings \cup LowSpellings
     /\ Field("further_inquiry") = PyBool(TRUE))
    => /\ ~result.raised
       /\ result.val = IF NonEmptyText(Field("further_questions"))
                       THEN Field("further_questions")
                       ELSE NoQuestionsMessage

C2_Witness ==
    /\ WellFormed
    /\ data.ty = "str"
    /\ Field("parts_needed") = PyBool(FALSE)
    /\ Field("complexity_level") = Text("low")
    /\ Field("further_inquiry") = PyBool(TRUE)
    /\ Field("instructions") = Text("Turn off the water valve.")
    /\ result.val = Text("What is the model number?")

\* C3: a well-formed reply with no parts needed, low or medium complexity and no
\* further inquiry gets its instructions unmodified when they are non-empty and
\* the "none were generated" message, never the empty string, otherwise,
\* whatever its further questions.
C3_Instructions ==
    (/\ WellFormed
     /\ Field("parts_needed") = PyBool(FALSE)
     /\ Field("complexity_level") \in MediumSpellings \cup LowSpellings
     /\ Field("further_inquiry") = PyBool(FALSE))
    => /\ ~result.raised
       /\ result.val # Text("")
       /\ result.val = IF NonEmptyText(Field("instructions"))
                       THEN Field("instructions")
                       ELSE NoInstructionsMessage

C3_Witness ==
    /\ WellFormed
    /\ Field("parts_needed") = PyBool(FALSE)
    /\ Field("complexity_level") = Text("medium")
    /\ Field("further_inquiry") = PyBool(FALSE)
    /\ Field("instructions") = Text("")
    /\ Field("further_questions") = Text("What is the model number?")
    /\ result.val = NoInstructionsMessage

\* C4: text that does not parse as JSON is returned as it is, and the decision
\* procedure is not applied to it.
C4_RawTextVerbatim ==
    (called /\ data.ty = "str" /\ json_loads(data).raised)
    => (~result.raised /\ result.val = data /\ ~result.handled)

C4_Witness ==
    /\ op = "generate_response"
    /\ data = Text("Sorry, I cannot help with that.")
    /\ result.val = Text("Sorry, I cannot help with that.")

DecisionOutcomes ==
    {ContractorMessage, NoQuestionsMessage, NoInstructionsMessage, UnclearInquiryMessage,
     FallbackMessage}

\* The message stating which required fields are missing.
IsMissingFieldsMessage(v) ==
    /\ v.ty = "str"
    /\ Len(v.s) > Len(ErrorPrefix \o MissingPrefix)
    /\ SubSeq(v.s, 1, Len(ErrorPrefix \o MissingPrefix)) = ErrorPrefix \o MissingPrefix

\* C5: a structured reply that is invalid (a required field missing or of the
\* wrong type, or a complexity level outside low/medium/high) never reaches the
\* decision table: the result is the missing-fields message and none of the
\* decision table's outcomes, the reply's own questions and instructions included.
C5_InvalidNeverDecided ==
    (Structured /\ ~validate_claude_response_structure(Reply))
    => /\ IsMissingFieldsMessage(result.val)
       /\ result.val \notin DecisionOutcomes
       /\ result.val \notin {Field("further_questions"), Field("instructions")}

\* The completion call of the request ended in a failure: the template or the
\* credential lookup failed, the transport failed, the status was not 200, the
\* payload was not shaped as expected, or the analyzer returned None.
MalformedPayload(body) ==
    \/ ~body.json_ok
    \/ body.val.ty # "dict"
    \/ DictGet(body.val, "content", Absent).ty # "list"
    \/ DictGet(body.val, "content", Absent).items = <<>>
    \/ DictGet(body.val, "content", Absent).items[1].ty # "dict"
    \/ ~HasKey(DictGet(body.val, "content", Absent).items[1].entries, "text")

CompletionFailed(e) ==
    \/ e.template # "ok"
    \/ ~e.api_key
    \/ e.transport # "ok"
    \/ e.status_code # 200
    \/ MalformedPayload(e.body)
    \/ process_prompt(e).val = PyNone

\* C6: when the completion call fails in any way, handle_prompt returns status
\* "error" with a non-empty message, does not invoke the interpreter and does
\* not raise.
C6_FailureIsError ==
    (op = "handle_prompt" /\ CompletionFailed(env))
    => /\ reply.status = "error"
       /\ reply.key = "message"
       /\ NonEmptyText(reply.text)
       /\ ~called
       /\ ~raised

C6_Witness ==
    /\ op = "handle_prompt"
    /\ env.template = "ok"
    /\ env.api_key
    /\ env.transport = "timeout"
    /\ reply.status = "error"
    /\ ~called

\* C7: whatever generate_response is given, its result is a non-empty string and
\* no exception escapes.
C7_NonEmptyString ==
    called => (~result.raised /\ NonEmptyText(result.val))

\* C8 as stated: every prompt makes exactly one outbound completion call.
C8_ExactlyOneCall ==
    op = "handle_prompt" => posts = 1

\* C8 amended: every prompt makes at most one outbound completion call, exactly
\* one when the template and the credential lookups succeed, and none when
\* either fails.
C8_AtMostOneCall ==
    op = "handle_prompt"
    => /\ posts <= 1
       /\ (posts = 1) <=> (env.template = "ok" /\ env.api_key)

C8_Witness ==
    /\ op = "handle_prompt"
    /\ env.template = "ok"
    /\ env.api_key
    /\ env.transport = "ok"
    /\ env.status_code = 500
    /\ posts = 1
    /\ reply.status = "error"

\* The text of a payload shaped as expected.
PayloadText(body) == DictGet(DictGet(body.val, "content", Absent).items[1], "text", Absent)

\* C9: when the service answers 200 with a payload shaped as expected, whatever
\* string its first content item carries (the empty string included), the
\* analyzer returns that string and handle_prompt returns status "success"
\* with the interpreter's message for it.
C9_SuccessPassesText ==
    (/\ op = "handle_prompt"
     /\ env.template = "ok" /\ env.api_key /\ env.transport = "ok" /\ env.status_code = 200
     /\ ~MalformedPayload(env.body)
     /\ PayloadText(env.body).ty = "str")
    => /\ process_prompt(env).val = PayloadText(env.body)
       /\ called
       /\ data = PayloadText(env.body)
       /\ reply.status = "success"
       /\ reply.text = result.val

\* A message of the program that reports an error.
IsDiagnostic(v) ==
    /\ NonEmptyText(v)
    /\ v = FailedMessage \/ v.s[1] = ErrorPrefix[1]

\* C10: given a failure (None) instead of text or a record, generate_response
\* returns a fixed error message telling that no response was available, and
\* raises nothing.
C10_FailureApology ==
    (called /\ data = PyNone)
    => (~result.raised /\ IsDiagnostic(result.val))

====
